---------------------------- MODULE Spec2Model ----------------------------
(***************************************************************************)
(* Flexible character accuracy (dinglehopper): the coefficient sweep of    *)
(* flexible_character_accuracy, the picker loop of match_with_coefficients *)
(* and the line aligner match_lines, over bounded input texts.             *)
(*                                                                         *)
(* A text is the sequence of lines str.splitlines() yields; a line is a    *)
(* sequence of characters.  A score is an exact fraction num/den (den > 0) *)
(* or minus infinity; a penalty is kept doubled, so that length_diff / 2   *)
(* stays an integer.  Match.ops is not modelled: nothing reads it but the  *)
(* renderer.                                                               *)
(***************************************************************************)
EXTENDS Integers, Sequences, FiniteSets, TLC

VARIABLES
  gt,            \* flexible_character_accuracy: the ground truth text (its lines)
  ocr,           \* flexible_character_accuracy: the text compared with it
  combo,         \* position of the for loop in combinations
  best_score,    \* flexible_character_accuracy: best_score
  best_matches,  \* flexible_character_accuracy: best_matches
  gt_lines,      \* match_with_coefficients: the ground truth pool
  ocr_lines,     \* match_with_coefficients: the ocr pool
  matches,       \* match_with_coefficients: matches, then its return value
  pc,            \* "sweep", "pick", "score" or "done"; "split", "call", "returned"
  split_self,    \* Part.split: the Part that is split
  split_other,   \* Part.split: the Part it is split by
  split_rest,    \* Part.split: rest, the list returned
  call_args,     \* a function called on its own: its arguments, by name
  call_result    \* a function called on its own: what it returned

split_vars == <<split_self, split_other, split_rest>>

call_vars == <<call_args, call_result>>

vars == <<gt, ocr, combo, best_score, best_matches, gt_lines, ocr_lines, matches,
          pc, split_vars, call_vars>>

(* ------------------------------ bounds --------------------------------- *)
\* The most lines a text has.
MaxLines == 2

Alphabet == {"a", "b"}

\* The lines a ground truth text is made of, and those of an ocr text: equal
\* lines, lines that differ in one or in every character, lines of different
\* lengths and empty lines all occur.
GtVocabulary == {<<>>, <<"a">>, <<"a", "a">>, <<"a", "b">>}

OcrVocabulary == {<<>>, <<"a">>, <<"a", "b">>, <<"b", "b", "b">>}

(* ------------------------------ helpers -------------------------------- *)
Min(m, n) == IF m <= n THEN m ELSE n

Max(m, n) == IF m >= n THEN m ELSE n

Abs(n) == IF n < 0 THEN -n ELSE n

\* A Python name holds a value, computed once when it is assigned:
\* The({e(name) : name \in {value}}) is e with the name holding the value,
\* worked out once however often e reads it.
The(singleton) == CHOOSE result \in singleton : TRUE

\* All character sequences of length lo..hi.
Strings(lo, hi) == UNION {[1..n -> Alphabet] : n \in lo..hi}

\* Python's text[s:e] for 0 <= s, 0 <= e: both ends are clamped to the length.
Slice(text, s, e) == SubSeq(text, Min(s, Len(text)) + 1, Min(e, Len(text)))

\* range(start, stop, step) as a sequence, step > 0.
Range(start, stop, step) ==
  [i \in 1..((Max(stop - start, 0) + step - 1) \div step) |-> start + (i - 1) * step]

\* The length of the longest line of the vocabularies.
MaxLen ==
  CHOOSE n \in 0..Cardinality(GtVocabulary \cup OcrVocabulary) + 1 :
    /\ \E v \in GtVocabulary \cup OcrVocabulary : Len(v) = n
    /\ \A v \in GtVocabulary \cup OcrVocabulary : Len(v) <= n

(* ------------------------- Levenshtein.editops ------------------------- *)
\* Length of the common prefix of a and b.
RECURSIVE CommonPrefix(_, _)
CommonPrefix(a, b) ==
  IF a # <<>> /\ b # <<>> /\ Head(a) = Head(b)
  THEN 1 + CommonPrefix(Tail(a), Tail(b))
  ELSE 0

\* Length of the common suffix of a and b.
RECURSIVE CommonSuffix(_, _)
CommonSuffix(a, b) ==
  IF a # <<>> /\ b # <<>> /\ a[Len(a)] = b[Len(b)]
  THEN 1 + CommonSuffix(SubSeq(a, 1, Len(a) - 1), SubSeq(b, 1, Len(b) - 1))
  ELSE 0

\* The Levenshtein cost matrix of a and b, unit costs.
RECURSIVE CostMatrix(_, _, _, _)
CostMatrix(a, b, i, j) ==
  IF i = 0 THEN j
  ELSE IF j = 0 THEN i
  ELSE Min(CostMatrix(a, b, i - 1, j - 1) + (IF a[i] = b[j] THEN 0 ELSE 1),
           Min(CostMatrix(a, b, i, j - 1) + 1, CostMatrix(a, b, i - 1, j) + 1))

NoEdits == [replace |-> 0, delete |-> 0, insert |-> 0]

\* The way back through the cost matrix from cell (i, j): the number of
\* replace, delete and insert operations of the edit script.  dir is the
\* direction of the previous step: -1 insert, 1 delete, 0 diagonal.
RECURSIVE Backtrace(_, _, _, _, _)
Backtrace(a, b, i, j, dir) ==
  LET here == CostMatrix(a, b, i, j)
      ins  == j > 0 /\ here = CostMatrix(a, b, i, j - 1) + 1
      del  == i > 0 /\ here = CostMatrix(a, b, i - 1, j) + 1
      keep == i > 0 /\ j > 0 /\ here = CostMatrix(a, b, i - 1, j - 1) /\ a[i] = b[j]
      repl == i > 0 /\ j > 0 /\ here = CostMatrix(a, b, i - 1, j - 1) + 1
      Ins  == LET r == Backtrace(a, b, i, j - 1, -1) IN [r EXCEPT !.insert = @ + 1]
      Del  == LET r == Backtrace(a, b, i - 1, j, 1) IN [r EXCEPT !.delete = @ + 1]
      Repl == LET r == Backtrace(a, b, i - 1, j - 1, 0) IN [r EXCEPT !.replace = @ + 1]
  IN  IF i = 0 /\ j = 0 THEN NoEdits
      ELSE IF dir < 0 /\ ins THEN Ins
      ELSE IF dir > 0 /\ del THEN Del
      ELSE IF keep THEN Backtrace(a, b, i - 1, j - 1, 0)
      ELSE IF repl THEN Repl
      ELSE IF ins THEN Ins
      ELSE Del

\* Counter([edit[0] for edit in editops(a, b)]): common prefix and suffix are
\* stripped, the rest is aligned by the cost matrix.
editops(a, b) ==
  LET p  == CommonPrefix(a, b)
      a1 == SubSeq(a, p + 1, Len(a))
      b1 == SubSeq(b, p + 1, Len(b))
      s  == CommonSuffix(a1, b1)
      a2 == SubSeq(a1, 1, Len(a1) - s)
      b2 == SubSeq(b1, 1, Len(b1) - s)
  IN  Backtrace(a2, b2, Len(a2), Len(b2), 0)

\* The memo of editops over the texts of the model; @@ makes TLC tabulate it.
editops_cache ==
  [a \in Strings(0, MaxLen) |-> [b \in Strings(0, MaxLen) |-> editops(a, b)] @@ <<>>] @@ <<>>

(* -------------------------------- Part -------------------------------- *)
Part(text, line, start) == [text |-> text, line |-> line, start |-> start]

\* Part.length
length(part) == Len(part.text)

\* Part.end
end(part) == part.start + length(part)

\* Part.substring(rel_start, rel_end); rel_end = None is passed as the length.
\* The slice clamps both ends, start does not.
substring(self, rel_start, rel_end) ==
  Part(Slice(self.text, rel_start, rel_end), self.line, self.start + rel_start)

\* Part.split whose second substring starts at split.end, not relative to self.
split_absolute_end(self, other) ==
  (IF self.start < other.start
   THEN <<substring(self, 0, other.start - self.start)>> ELSE <<>>)
  \o
  (IF end(other) < end(self)
   THEN <<substring(self, end(other), length(self))>> ELSE <<>>)

\* Part.split(split): the rest of self before and after split.
split(self, other) ==
  (IF self.start < other.start
   THEN <<substring(self, 0, other.start - self.start)>> ELSE <<>>)
  \o
  (IF end(other) < end(self)
   THEN <<substring(self, end(other) - self.start, length(self))>> ELSE <<>>)

(* -------------------------- Distance and Match ------------------------- *)
Distance(match, replace, delete, insert) ==
  [match |-> match, replace |-> replace, delete |-> delete, insert |-> insert]

Match(gt_part, ocr_part, dist) == [gt |-> gt_part, ocr |-> ocr_part, dist |-> dist]

\* distance with match derived from the ocr length.
distance_ocr_length(gt_part, ocr_part) ==
  LET edits == editops_cache[gt_part.text][ocr_part.text]
  IN  Match(gt_part, ocr_part,
            Distance(length(ocr_part) - edits.delete - edits.replace,
                     edits.replace, edits.delete, edits.insert))

\* distance(gt, ocr): the edit operations counted, match derived from them.
distance(gt_part, ocr_part) ==
  LET edits == editops_cache[gt_part.text][ocr_part.text]
  IN  Match(gt_part, ocr_part,
            Distance(length(gt_part) - edits.delete - edits.replace,
                     edits.replace, edits.delete, edits.insert))

\* score_edit_distance(dist)
score_edit_distance(dist) == dist.delete + dist.insert + 2 * dist.replace

(* ----------------------- float("inf") and scores ----------------------- *)
\* A float that is an integer n, or float("inf").
Fin(n) == [inf |-> FALSE, val |-> n]

Inf == [inf |-> TRUE, val |-> 0]

\* n < bound, for an integer n
LessThan(n, bound) == bound.inf \/ n < bound.val

\* A score is the fraction num / den with den > 0; -float("inf") is -1 / 0.
Score(num, den) == [num |-> num, den |-> den]

NegInf == Score(-1, 0)

One == Score(1, 1)

Zero == Score(0, 1)

ScoreGt(s, t) == s.num * t.den > t.num * s.den

ScoreGe(s, t) == s.num * t.den >= t.num * s.den

ScoreEq(s, t) == s.num * t.den = t.num * s.den

\* character_accuracy that returns the error rate, the "1 -" forgotten.
character_accuracy_error_rate(edits) ==
  LET errors == edits.replace + edits.delete + edits.insert
      chars  == edits.match + edits.replace + edits.delete
  IN  IF chars = 0 /\ errors = 0 THEN Score(1, 1)
      ELSE IF chars = 0 THEN Score(-errors, 1)
      ELSE Score(errors, chars)

\* character_accuracy whose errors leave the inserts out.
character_accuracy_no_inserts(edits) ==
  LET errors == edits.replace + edits.delete
      chars  == edits.match + edits.replace + edits.delete
  IN  IF chars = 0 /\ errors = 0 THEN Score(1, 1)
      ELSE IF chars = 0 THEN Score(-errors, 1)
      ELSE Score(chars - errors, chars)

\* character_accuracy that never goes below 0.
character_accuracy_clamped(edits) ==
  LET errors == edits.replace + edits.delete + edits.insert
      chars  == edits.match + edits.replace + edits.delete
  IN  IF chars = 0 /\ errors = 0 THEN Score(1, 1)
      ELSE IF chars = 0 THEN Score(0, 1)
      ELSE Score(Max(chars - errors, 0), chars)

\* character_accuracy(edits)
character_accuracy(edits) ==
  LET errors == edits.replace + edits.delete + edits.insert
      chars  == edits.match + edits.replace + edits.delete
  IN  IF chars = 0 /\ errors = 0 THEN Score(1, 1)
      ELSE IF chars = 0 THEN Score(-errors, 1)
      ELSE Score(chars - errors, chars)

\* Counter + Counter: the counts added, only the positive ones kept.
CounterAdd(acc, dist) ==
  Distance(Max(acc.match + dist.match, 0), Max(acc.replace + dist.replace, 0),
           Max(acc.delete + dist.delete, 0), Max(acc.insert + dist.insert, 0))

\* The reduce of character_accuracy_for_matches, from the left.
RECURSIVE SumLoop(_, _)
SumLoop(ms, n) ==
  IF n = 0 THEN Distance(0, 0, 0, 0)
  ELSE The({CounterAdd(acc, ms[n].dist) : acc \in {SumLoop(ms, n - 1)}})

SumDist(ms) == SumLoop(ms, Len(ms))

\* character_accuracy_for_matches(matches)
character_accuracy_for_matches(ms) ==
  The({character_accuracy(agg) : agg \in {SumDist(ms)}})

(* ----------------------------- match_lines ---------------------------- *)
\* gt_parts / ocr_parts of match_lines: the windows of min_length characters
\* at offsets 0 .. max(1, diff + 1) - 1, then the full line at offset 0.
Windows(line, min_length, diff) ==
  [i \in 1..Max(1, diff + 1) |->
     [at |-> i - 1, part |-> substring(line, i - 1, i - 1 + min_length)]]
  \o <<[at |-> 0, part |-> line]>>

\* One comparison of match_lines: the candidate replaces the best match when
\* its edit distance is lower and not every character is a replacement.
Consider(acc, match, i, j, min_length) ==
  LET edit_dist == score_edit_distance(match.dist)
  IN  IF LessThan(edit_dist, acc.min_edit_dist) /\ match.dist.replace < min_length
      THEN [min_edit_dist |-> Fin(edit_dist), best_match |-> <<match>>,
            best_i |-> i, best_j |-> j]
      ELSE acc

\* The nested loop over gt_parts and ocr_parts, from pair n on.
RECURSIVE SlideLoop(_, _, _, _, _)
SlideLoop(gt_parts, ocr_parts, n, min_length, acc) ==
  IF n > Len(gt_parts) * Len(ocr_parts) THEN acc
  ELSE LET g == gt_parts[((n - 1) \div Len(ocr_parts)) + 1]
           o == ocr_parts[((n - 1) % Len(ocr_parts)) + 1]
       IN  The({SlideLoop(gt_parts, ocr_parts, n + 1, min_length, best) :
                  best \in {Consider(acc, distance(g.part, o.part), g.at, o.at,
                                     min_length)}})

\* The elongation loop: k runs from k to last.
RECURSIVE ElongateLoop(_, _, _, _, _, _)
ElongateLoop(gt_line, ocr_line, k, last, min_length, acc) ==
  IF k > last THEN acc
  ELSE LET match == distance(substring(gt_line, acc.best_i, acc.best_i + k),
                             substring(ocr_line, acc.best_j, acc.best_j + k))
       IN  The({ElongateLoop(gt_line, ocr_line, k + 1, last, min_length, best) :
                  best \in {Consider(acc, match, acc.best_i, acc.best_j, min_length)}})

\* match_lines without the last test, "is delete a better option?".
match_lines_no_delete(gt_line, ocr_line) ==
  LET min_length  == Min(length(gt_line), length(ocr_line))
      length_diff == length(gt_line) - length(ocr_line)
      start    == [min_edit_dist |-> Inf, best_match |-> <<>>, best_i |-> 0, best_j |-> 0]
  IN  IF min_length = 0 THEN <<>>
      ELSE The({LET dist == slid.best_match[1].dist
                    part_length == length(slid.best_match[1].gt)
                    additional_length == dist.delete + dist.replace
                    elongated ==
                      IF slid.best_match # <<>> /\ (dist.delete # 0 \/ dist.replace # 0)
                      THEN ElongateLoop(gt_line, ocr_line, part_length + 1,
                                        part_length + additional_length, min_length, slid)
                      ELSE slid
                IN  elongated.best_match
                : slid \in {SlideLoop(Windows(gt_line, min_length, length_diff),
                                      Windows(ocr_line, min_length, -1 * length_diff),
                                      1, min_length, start)}})

\* match_lines(gt_line, ocr_line): <<>> for None, <<match>> for a match.
match_lines(gt_line, ocr_line) ==
  LET min_length  == Min(length(gt_line), length(ocr_line))
      length_diff == length(gt_line) - length(ocr_line)
      start    == [min_edit_dist |-> Inf, best_match |-> <<>>, best_i |-> 0, best_j |-> 0]
      delete   == distance(gt_line, Part(<<>>, ocr_line.line, ocr_line.start))
  IN  IF min_length = 0 THEN <<>>
      ELSE The({LET dist == slid.best_match[1].dist
                    part_length == length(slid.best_match[1].gt)
                    additional_length == dist.delete + dist.replace
                IN  The({IF LessThan(score_edit_distance(delete.dist),
                                     elongated.min_edit_dist)
                         THEN <<delete>>
                         ELSE elongated.best_match
                         : elongated \in
                             {IF slid.best_match # <<>>
                                 /\ (dist.delete # 0 \/ dist.replace # 0)
                              THEN ElongateLoop(gt_line, ocr_line, part_length + 1,
                                                part_length + additional_length,
                                                min_length, slid)
                              ELSE slid}})
                : slid \in {SlideLoop(Windows(gt_line, min_length, length_diff),
                                      Windows(ocr_line, min_length, -1 * length_diff),
                                      1, min_length, start)}})

\* The Parts of the model: any piece of any line of a text.
Parts ==
  [text : Strings(0, MaxLen), line : 0..(MaxLines - 1), start : 0..(MaxLen - 1)]

\* lru_cache of match_lines; @@ makes TLC tabulate it.
match_lines_cache ==
  [gt_line \in Parts |-> [ocr_line \in Parts |-> match_lines(gt_line, ocr_line)] @@ <<>>] @@ <<>>

(* -------------------------- calculate_penalty -------------------------- *)
Coefficients(edit_dist, length_diff, offset, len) ==
  [edit_dist |-> edit_dist, length_diff |-> length_diff, offset |-> offset,
   length |-> len]

\* calculate_penalty with an offset that grows with the distance of the
\* substring from the middle, doubled.
calculate_penalty_from_middle(gt_length, ocr_length, gt_start, ocr_start, gt_match_start, ocr_match_start, dist, coef) ==
  LET min_edit_dist    == score_edit_distance(dist)
      length_diff      == Abs(gt_length - ocr_length)
      substring_length == Min(gt_length, ocr_length)
      substring_pos    == Max(gt_match_start - gt_start, ocr_match_start - ocr_start)
      offset2 == IF length_diff > 1
                 THEN Abs(2 * substring_pos - length_diff)
                 ELSE 0
  IN  2 * min_edit_dist * coef.edit_dist
      + 2 * length_diff * coef.length_diff
      + offset2 * coef.offset
      - 2 * substring_length * coef.length

\* calculate_penalty(...), doubled: length_diff / 2 is then length_diff.
calculate_penalty(gt_length, ocr_length, gt_start, ocr_start, gt_match_start, ocr_match_start, dist, coef) ==
  LET min_edit_dist    == score_edit_distance(dist)
      length_diff      == Abs(gt_length - ocr_length)
      substring_length == Min(gt_length, ocr_length)
      substring_pos    == Max(gt_match_start - gt_start, ocr_match_start - ocr_start)
      offset2 == IF length_diff > 1
                 THEN length_diff - Abs(2 * substring_pos - length_diff)
                 ELSE 0
  IN  2 * min_edit_dist * coef.edit_dist
      + 2 * length_diff * coef.length_diff
      + offset2 * coef.offset
      - 2 * substring_length * coef.length

(* ------------------------------ the pools ------------------------------ *)
\* list.sort(key=lambda x: x.length, reverse=True): stable, longest first.
\* The first n lines of lines, sorted.
RECURSIVE SortLoop(_, _)
SortLoop(lines, n) ==
  IF n = 0 THEN <<>>
  ELSE The({LET last == lines[n]
                keep == Cardinality({i \in 1..Len(sorted) :
                                         length(sorted[i]) >= length(last)})
            IN  SubSeq(sorted, 1, keep) \o <<last>> \o SubSeq(sorted, keep + 1, Len(sorted))
            : sorted \in {SortLoop(lines, n - 1)}})

\* The sort left out: the lines stay in the order they have.
KeepOrder(lines) == lines

\* lines.sort(key=lambda x: x.length, reverse=True)
SortByLength(lines) == The({SortLoop(pool, Len(pool)) : pool \in {lines}})

\* initialize_lines(text): a Part per non-empty line, longest first.
initialize_lines(text) ==
  LET RECURSIVE Lines(_)
      Lines(n) ==
        IF n = 0 THEN <<>>
        ELSE Lines(n - 1) \o
             (IF Len(text[n]) > 0 THEN <<Part(text[n], n - 1, 0)>> ELSE <<>>)
  IN  SortByLength(Lines(Len(text)))

\* lines.index(original): the first position holding an equal Part.
IndexOf(lines, original) ==
  CHOOSE i \in 1..Len(lines) :
    lines[i] = original /\ \A j \in 1..(i - 1) : lines[j] # original

\* remove_or_split that never puts the rest of a split line back.
remove_or_split_no_rest(original, match, lines) ==
  LET at == IndexOf(lines, original)
  IN  SubSeq(lines, 1, at - 1) \o SubSeq(lines, at + 1, Len(lines))

\* remove_or_split(original, match, lines): the pool afterwards.
remove_or_split(original, match, lines) ==
  LET at      == IndexOf(lines, original)
      removed == SubSeq(lines, 1, at - 1) \o SubSeq(lines, at + 1, Len(lines))
  IN  IF length(match) < length(original)
      THEN SortByLength(removed \o split(original, match))
      ELSE removed

(* ------------------------ match_longest_gt_lines ----------------------- *)
\* match_gt_line(gt_line, ocr_lines, coef): the loop from ocr line n on.
RECURSIVE PenaltyLoop(_, _, _, _, _)
PenaltyLoop(gt_line, ocr_pool, coef, n, acc) ==
  IF n > Len(ocr_pool) THEN acc
  ELSE LET ocr_line == ocr_pool[n]
           match    == match_lines_cache[gt_line][ocr_line]
           penalty  == calculate_penalty(length(gt_line), length(ocr_line),
                                         gt_line.start, ocr_line.start,
                                         match[1].gt.start, match[1].ocr.start,
                                         match[1].dist, coef)
       IN  The({PenaltyLoop(gt_line, ocr_pool, coef, n + 1, best) :
                  best \in {IF match # <<>> /\ LessThan(penalty, acc.min_penalty)
                            THEN [min_penalty |-> Fin(penalty), best_match |-> match,
                                  best_ocr |-> <<ocr_line>>]
                            ELSE acc}})

\* match_gt_line keeping the first ocr line, whatever its penalty.
match_gt_line_first(gt_line, ocr_pool, coef) ==
  PenaltyLoop(gt_line, SubSeq(ocr_pool, 1, 1), coef, 1,
              [min_penalty |-> Inf, best_match |-> <<>>, best_ocr |-> <<>>])

\* match_gt_line(gt_line, ocr_lines, coef): best_match and best_ocr.
match_gt_line(gt_line, ocr_pool, coef) ==
  PenaltyLoop(gt_line, ocr_pool, coef, 1,
              [min_penalty |-> Inf, best_match |-> <<>>, best_ocr |-> <<>>])

\* takewhile(lambda line: line.length > length_threshold, gt_lines)
RECURSIVE TakeWhileLonger(_, _)
TakeWhileLonger(lines, length_threshold) ==
  IF lines # <<>> /\ length(Head(lines)) > length_threshold
  THEN <<Head(lines)>> \o TakeWhileLonger(Tail(lines), length_threshold)
  ELSE <<>>

\* The loop of match_longest_gt_lines over the long ground truth lines.
RECURSIVE LongestLoop(_, _, _, _, _)
LongestLoop(long, ocr_pool, coef, n, acc) ==
  IF n > Len(long) \/ ScoreGe(acc.best_score, One) THEN acc
  ELSE The({LET score == IF found.best_match = <<>> THEN NegInf
                         ELSE character_accuracy(found.best_match[1].dist)
            IN  The({LongestLoop(long, ocr_pool, coef, n + 1, best) :
                       best \in {IF ScoreGt(score, acc.best_score)
                                 THEN [best_score |-> score,
                                       best_match |-> found.best_match,
                                       best_gt |-> <<long[n]>>,
                                       best_ocr |-> found.best_ocr]
                                 ELSE acc}})
            : found \in {match_gt_line(long[n], ocr_pool, coef)}})

\* match_longest_gt_lines(gt_lines, ocr_lines, coef): the match (<<>> for None)
\* and the two pools as the call leaves them.
match_longest_gt_lines(gt_pool, ocr_pool, coef) ==
  LET length_threshold == Min(length(gt_pool[1]), length(ocr_pool[1])) - 1
      start == [best_score |-> NegInf, best_match |-> <<>>,
                best_gt |-> <<>>, best_ocr |-> <<>>]
      long  == TakeWhileLonger(gt_pool, length_threshold)
  IN  The({IF ocr_pool = <<>> \/ best.best_match = <<>>
           THEN [match |-> <<>>, gt_lines |-> gt_pool, ocr_lines |-> ocr_pool]
           ELSE [match |-> best.best_match,
                 gt_lines  |-> remove_or_split(best.best_gt[1], best.best_match[1].gt,
                                               gt_pool),
                 ocr_lines |-> remove_or_split(best.best_ocr[1], best.best_match[1].ocr,
                                               ocr_pool)]
           : best \in {LongestLoop(long, ocr_pool, coef, 1, start)}})

(* ----------------------------- the sweep ------------------------------- *)
\* product(range(15, 31, 5), range(0, 24, 3), range(0, 4, 1), range(0, 6, 1))
combinations ==
  LET e == Range(15, 31, 5)
      d == Range(0, 24, 3)
      o == Range(0, 4, 1)
      l == Range(0, 6, 1)
  IN  [n \in 1..(Len(e) * Len(d) * Len(o) * Len(l)) |->
         Coefficients(e[((n - 1) \div (Len(d) * Len(o) * Len(l))) + 1],
                      d[(((n - 1) \div (Len(o) * Len(l))) % Len(d)) + 1],
                      o[(((n - 1) \div Len(l)) % Len(o)) + 1],
                      l[((n - 1) % Len(l)) + 1])] @@ <<>>

\* Step 6 of match_with_coefficients: what is left of the pools.
deletes(gt_pool) ==
  [n \in 1..Len(gt_pool) |->
     distance(gt_pool[n], Part(<<>>, gt_pool[n].line, gt_pool[n].start))]

\* inserts with the arguments of distance the wrong way round.
inserts_swapped(ocr_pool) ==
  [n \in 1..Len(ocr_pool) |->
     distance(ocr_pool[n], Part(<<>>, ocr_pool[n].line, ocr_pool[n].start))]

inserts(ocr_pool) ==
  [n \in 1..Len(ocr_pool) |->
     distance(Part(<<>>, ocr_pool[n].line, ocr_pool[n].start), ocr_pool[n])]

\* match_with_coefficients from the while loop on: the loop, then step 6.
RECURSIVE PickLoop(_, _, _, _)
PickLoop(gt_pool, ocr_pool, coef, ms) ==
  IF Len(gt_pool) # 0 /\ Len(ocr_pool) # 0
  THEN LET step == match_longest_gt_lines(gt_pool, ocr_pool, coef)
       IN  PickLoop(step.gt_lines, step.ocr_lines, coef, ms \o step.match)
  ELSE ms \o deletes(gt_pool) \o inserts(ocr_pool)

\* match_with_coefficients(gt, ocr, coef) as one function.
match_with_coefficients(gt_text, ocr_text, coef) ==
  PickLoop(initialize_lines(gt_text), initialize_lines(ocr_text), coef, <<>>)

\* One turn of the for loop of flexible_character_accuracy, combination n;
\* after the break no turn is taken.
SweepTurn(gt_text, ocr_text, n, best) ==
  IF ScoreGe(best.score, One) THEN best
  ELSE LET ms    == match_with_coefficients(gt_text, ocr_text, combinations[n])
           score == character_accuracy_for_matches(ms)
       IN  IF ScoreGt(score, best.score)
           THEN [score |-> score, matches |-> ms]
           ELSE best

\* The turns lo .. hi of the for loop in order (halved, to keep the
\* evaluation shallow).
RECURSIVE SweepLoop(_, _, _, _, _)
SweepLoop(gt_text, ocr_text, lo, hi, best) ==
  IF lo > hi \/ ScoreGe(best.score, One) THEN best
  ELSE IF lo = hi THEN SweepTurn(gt_text, ocr_text, lo, best)
  ELSE LET mid == (lo + hi) \div 2
       IN  SweepLoop(gt_text, ocr_text, mid + 1, hi,
                     SweepLoop(gt_text, ocr_text, lo, mid, best))

\* flexible_character_accuracy(gt, ocr) as one function.
flexible_character_accuracy(gt_text, ocr_text) ==
  SweepLoop(gt_text, ocr_text, 1, Len(combinations),
            [score |-> NegInf, matches |-> <<>>])

(* ------------------------------ the inputs ----------------------------- *)
\* The texts of at most MaxLines lines of a vocabulary.
Texts(vocabulary) == UNION {[1..k -> vocabulary] : k \in 0..MaxLines}

(* ---------------------------- state machine ---------------------------- *)
Init ==
  /\ gt \in Texts(GtVocabulary)
  /\ ocr \in Texts(OcrVocabulary)
  /\ combo = 1
  /\ best_score = NegInf
  /\ best_matches = <<>>
  /\ gt_lines = <<>>
  /\ ocr_lines = <<>>
  /\ matches = <<>>
  /\ pc = "sweep"
  /\ split_self = Part(<<>>, 0, 0)
  /\ split_other = Part(<<>>, 0, 0)
  /\ split_rest = <<>>
  /\ call_args = <<>>
  /\ call_result = <<>>

\* The for loop takes the next coefficients and match_with_coefficients
\* starts: steps 1 and 2.
Initialize ==
  /\ pc = "sweep"
  /\ ocr_lines' = initialize_lines(ocr)
  /\ gt_lines' = initialize_lines(gt)
  /\ matches' = <<>>
  /\ pc' = "pick"
  /\ UNCHANGED <<gt, ocr, combo, best_score, best_matches>>
  /\ UNCHANGED <<split_vars, call_vars>>

\* One turn of the while loop of match_with_coefficients: steps 3 to 5.
Pick ==
  /\ pc = "pick"
  /\ Len(gt_lines) # 0 /\ Len(ocr_lines) # 0
  /\ \E step \in {match_longest_gt_lines(gt_lines, ocr_lines, combinations[combo])} :
       /\ gt_lines' = step.gt_lines
       /\ ocr_lines' = step.ocr_lines
       /\ matches' = matches \o step.match
  /\ UNCHANGED <<gt, ocr, combo, best_score, best_matches, pc>>
  /\ UNCHANGED <<split_vars, call_vars>>

\* The while loop is left; step 6 folds the pools and match_with_coefficients
\* returns.
Fold ==
  /\ pc = "pick"
  /\ ~(Len(gt_lines) # 0 /\ Len(ocr_lines) # 0)
  /\ matches' = matches \o deletes(gt_lines) \o inserts(ocr_lines)
  /\ pc' = "score"
  /\ UNCHANGED <<gt, ocr, combo, best_score, best_matches, gt_lines, ocr_lines>>
  /\ UNCHANGED <<split_vars, call_vars>>

\* Rate that takes a score equal to the best one for better.
RateLast ==
  /\ pc = "score"
  /\ \E score \in {character_accuracy_for_matches(matches)} :
     LET better == ScoreGe(score, best_score)
         best   == IF better THEN score ELSE best_score
     IN  /\ best_score' = best
         /\ best_matches' = IF better THEN matches ELSE best_matches
         /\ \/ /\ ScoreGe(best, One) \/ combo = Len(combinations)
               /\ pc' = "done"
               /\ combo' = combo
            \/ /\ ~ScoreGe(best, One) /\ combo < Len(combinations)
               /\ pc' = "sweep"
               /\ combo' = combo + 1
  /\ UNCHANGED <<gt, ocr, gt_lines, ocr_lines, matches>>
  /\ UNCHANGED <<split_vars, call_vars>>

\* Step 7 and the rest of the for loop body: the score, the best so far,
\* the early break; after the last combination the function returns.
Rate ==
  /\ pc = "score"
  /\ \E score \in {character_accuracy_for_matches(matches)} :
     LET better == ScoreGt(score, best_score)
         best   == IF better THEN score ELSE best_score
     IN  /\ best_score' = best
         /\ best_matches' = IF better THEN matches ELSE best_matches
         /\ \/ /\ ScoreGe(best, One) \/ combo = Len(combinations)
               /\ pc' = "done"
               /\ combo' = combo
            \/ /\ ~ScoreGe(best, One) /\ combo < Len(combinations)
               /\ pc' = "sweep"
               /\ combo' = combo + 1
  /\ UNCHANGED <<gt, ocr, gt_lines, ocr_lines, matches>>
  /\ UNCHANGED <<split_vars, call_vars>>

Next == Initialize \/ Pick \/ Fold \/ Rate

Spec == Init /\ [][Next]_vars

\* Fairness: the interpreter keeps running the function until it returns, so
\* a step that can be taken is taken.  The texts of this specification are
\* those of lines "a" and "ab" against those of lines "a" and "bbb".
FairInit ==
  /\ Init
  /\ \A l \in 1..Len(gt) : gt[l] \in {<<"a">>, <<"a", "b">>}
  /\ \A l \in 1..Len(ocr) : ocr[l] \in {<<"a">>, <<"b", "b", "b">>}

FairSpec == FairInit /\ [][Next]_vars /\ WF_vars(Next)

\* Texts whose ground truth lines can be equally long, so that
\* match_longest_gt_lines has several candidates, and whose ocr lines match
\* them with an error, at an end or in the middle only.
CandidatesInit ==
  /\ gt \in [1..MaxLines -> {<<>>, <<"a">>, <<"a", "a">>, <<"b", "b">>}]
  /\ ocr \in [1..MaxLines -> {<<>>, <<"b">>, <<"a", "b">>, <<"b", "a", "b">>}]
  /\ combo = 1
  /\ best_score = NegInf /\ best_matches = <<>>
  /\ gt_lines = <<>> /\ ocr_lines = <<>> /\ matches = <<>>
  /\ pc = "sweep"
  /\ split_self = Part(<<>>, 0, 0) /\ split_other = Part(<<>>, 0, 0)
  /\ split_rest = <<>>
  /\ call_args = <<>> /\ call_result = <<>>

CandidatesSpec == CandidatesInit /\ [][Next]_vars

(* ------------------------------ Part.split ----------------------------- *)
\* Part.split on its own: any Part of the model, split by any of its
\* sub-ranges, the empty ones included.
SplitInit ==
  /\ split_self \in Parts
  /\ \E rel_start \in 0..length(split_self) :
       \E rel_end \in rel_start..length(split_self) :
         split_other = substring(split_self, rel_start, rel_end)
  /\ split_rest = <<>>
  /\ pc = "split"
  /\ gt = <<>> /\ ocr = <<>> /\ combo = 1
  /\ best_score = NegInf /\ best_matches = <<>>
  /\ gt_lines = <<>> /\ ocr_lines = <<>> /\ matches = <<>>
  /\ call_args = <<>> /\ call_result = <<>>

\* The call split_self.split(split_other).
Split ==
  /\ pc = "split"
  /\ split_rest' = split(split_self, split_other)
  /\ pc' = "returned"
  /\ UNCHANGED <<gt, ocr, combo, best_score, best_matches, gt_lines, ocr_lines,
                 matches, split_self, split_other, call_vars>>

SplitNext == Split

SplitSpec == SplitInit /\ [][SplitNext]_vars

(* ------------------- reading_order.map_point_to_grid ------------------- *)
\* The largest image width and height, in pixels.
MaxDim == 5

\* The largest grid_size.
MaxGrid == 3

\* math.ceil(n / d) for d > 0.
Ceil(n, d) == (n + d - 1) \div d

\* map_point_to_grid that takes the point as it is given.
map_point_to_grid_unclamped(width, height, px, py, grid_direction, grid_size) ==
  LET grid_id ==
        IF grid_direction = "row"
        THEN Ceil(width, grid_size) * Max(0, Ceil(py, grid_size) - 1) + Ceil(px, grid_size)
        ELSE Ceil(height, grid_size) * Max(0, Ceil(px, grid_size) - 1) + Ceil(py, grid_size)
  IN  IF grid_direction \notin {"row", "col"} THEN "ValueError"
      ELSE Max(1, grid_id)

\* map_point_to_grid(img_dim, point, grid_direction, grid_size); a direction
\* other than "row" and "col" raises ValueError.
map_point_to_grid(width, height, px, py, grid_direction, grid_size) ==
  LET x == Min(Max(0, px), width)
      y == Min(Max(0, py), height)
      grid_id ==
        IF grid_direction = "row"
        THEN Ceil(width, grid_size) * Max(0, Ceil(y, grid_size) - 1) + Ceil(x, grid_size)
        ELSE Ceil(height, grid_size) * Max(0, Ceil(x, grid_size) - 1) + Ceil(y, grid_size)
  IN  IF grid_direction \notin {"row", "col"} THEN "ValueError"
      ELSE Max(1, grid_id)

\* What every specification of a function called on its own leaves alone.
Idle ==
  /\ gt = <<>> /\ ocr = <<>> /\ combo = 1
  /\ best_score = NegInf /\ best_matches = <<>>
  /\ gt_lines = <<>> /\ ocr_lines = <<>> /\ matches = <<>>
  /\ split_self = Part(<<>>, 0, 0) /\ split_other = Part(<<>>, 0, 0)
  /\ split_rest = <<>>

idle_vars ==
  <<gt, ocr, combo, best_score, best_matches, gt_lines, ocr_lines, matches, split_vars>>

\* map_point_to_grid on its own: images from 0 x 0 pixels on, points inside
\* and outside of them, the two directions and one that is not supported.
GridInit ==
  /\ call_args \in [width : 0..MaxDim, height : 0..MaxDim,
                    x : -1..(MaxDim + 1), y : -1..(MaxDim + 1),
                    grid_direction : {"row", "col", "unknown"},
                    grid_size : 1..MaxGrid]
  /\ call_result = <<>>
  /\ pc = "call"
  /\ Idle

\* The call map_point_to_grid(img_dim, point, grid_direction, grid_size).
MapPoint ==
  /\ pc = "call"
  /\ call_result' = map_point_to_grid(call_args.width, call_args.height, call_args.x,
                                      call_args.y, call_args.grid_direction,
                                      call_args.grid_size)
  /\ pc' = "returned"
  /\ UNCHANGED <<call_args, idle_vars>>

GridNext == MapPoint

GridSpec == GridInit /\ [][GridNext]_vars

(* ------------------ reading_order.extract_regions_grid ----------------- *)
\* The most text regions of a page.
MaxRegions == 3

\* extract_top_left(coords): the least x and the least y of the polygon.
extract_top_left(points) ==
  [x |-> CHOOSE v \in {points[i].x : i \in 1..Len(points)} :
           \A i \in 1..Len(points) : v <= points[i].x,
   y |-> CHOOSE v \in {points[i].y : i \in 1..Len(points)} :
           \A i \in 1..Len(points) : v <= points[i].y]

\* sorted(keys): the numbers of a set in ascending order.
RECURSIVE Sorted(_)
Sorted(keys) ==
  IF keys = {} THEN <<>>
  ELSE LET least == CHOOSE k \in keys : \A other \in keys : k <= other
       IN  <<least>> \o Sorted(keys \ {least})

\* extract_coords(tree, nsmap): the polygon of every region id; of two
\* regions with one id the dict keeps the later one.
extract_coords(regions) ==
  [id \in {regions[i].id : i \in 1..Len(regions)} |->
     regions[CHOOSE i \in 1..Len(regions) :
               /\ regions[i].id = id
               /\ \A j \in (i + 1)..Len(regions) : regions[j].id # id].points]

\* The ids of keys, in their order, that grid_of maps to grid_id.
RECURSIVE InGrid(_, _, _)
InGrid(keys, grid_of, grid_id) ==
  IF keys = <<>> THEN <<>>
  ELSE (IF grid_of[Head(keys)] = grid_id THEN <<Head(keys)>> ELSE <<>>)
       \o InGrid(Tail(keys), grid_of, grid_id)

\* it.chain.from_iterable(grid_order[grid_id] for grid_id in grid_ids)
RECURSIVE Chain(_, _, _)
Chain(grid_ids, keys, grid_of) ==
  IF grid_ids = <<>> THEN <<>>
  ELSE InGrid(keys, grid_of, Head(grid_ids)) \o Chain(Tail(grid_ids), keys, grid_of)

\* extract_regions_grid(tree, nsmap, grid_direction, grid_size) for a page of
\* the given width and height whose text regions are regions, in the order
\* of the xml structure.  A region id n stands for the string "r<n>".
extract_regions_grid(regions, width, height, grid_direction, grid_size) ==
  LET coords  == extract_coords(regions)
      keys    == Sorted(DOMAIN coords)
      grid_of == [id \in DOMAIN coords |->
                    map_point_to_grid(width, height,
                                      extract_top_left(coords[id]).x,
                                      extract_top_left(coords[id]).y,
                                      grid_direction, grid_size)]
  IN  Chain(Sorted({grid_of[id] : id \in DOMAIN coords}), keys, grid_of)

\* The polygons of the model: two corners each, the top left corner of the
\* polygon being neither of them unless it is the far corner of the page.
Polygons ==
  {<<[x |-> MaxDim, y |-> py], [x |-> px, y |-> MaxDim]>> : px, py \in {1, MaxDim}}

\* extract_regions_grid on its own: up to MaxRegions regions with different
\* ids in any order, on a page of MaxDim x MaxDim pixels, with a grid of
\* several cells and with one of a single cell.
RegionsInit ==
  /\ call_args \in
       {a \in [regions : UNION {[1..n -> [id : 0..(MaxRegions - 1), points : Polygons]] :
                                  n \in 0..MaxRegions},
               width : {MaxDim}, height : {MaxDim},
               grid_direction : {"row", "col"},
               grid_size : {MaxGrid, 10}] :
          \A i, j \in 1..Len(a.regions) :
            i # j => a.regions[i].id # a.regions[j].id}
  /\ call_result = <<>>
  /\ pc = "extract_regions_grid"
  /\ Idle

\* The call extract_regions_grid(tree, nsmap, grid_direction, grid_size).
ExtractRegionsGrid ==
  /\ pc = "extract_regions_grid"
  /\ call_result' = extract_regions_grid(call_args.regions, call_args.width,
                                         call_args.height, call_args.grid_direction,
                                         call_args.grid_size)
  /\ pc' = "returned"
  /\ UNCHANGED <<call_args, idle_vars>>

RegionsNext == ExtractRegionsGrid

RegionsSpec == RegionsInit /\ [][RegionsNext]_vars

(* ------------------- the substring calls of match_lines ---------------- *)
\* A call self.substring(rel_start=..., rel_end=...).
SubstringCall(self, rel_start, rel_end) ==
  [self |-> self, rel_start |-> rel_start, rel_end |-> rel_end]

\* The calls of one list comprehension of match_lines with one window more
\* than the longer line has room for.
WindowCalls_one_more(line, min_length, diff) ==
  [i \in 1..Max(1, diff + 2) |-> SubstringCall(line, i - 1, i - 1 + min_length)]

\* The calls of one list comprehension of match_lines: gt_parts or ocr_parts.
WindowCalls(line, min_length, diff) ==
  [i \in 1..Max(1, diff + 1) |-> SubstringCall(line, i - 1, i - 1 + min_length)]

\* The calls of the elongation loop, two for every k of first .. last.
ElongateCalls(gt_line, ocr_line, first, last, best_i, best_j) ==
  [n \in 1..(2 * Max(0, last - first + 1)) |->
     IF n % 2 = 1
     THEN SubstringCall(gt_line, best_i, best_i + first + ((n - 1) \div 2))
     ELSE SubstringCall(ocr_line, best_j, best_j + first + ((n - 1) \div 2))]

\* Every call of Part.substring that match_lines(gt_line, ocr_line) makes:
\* those of the sliding windows, then those of the elongation.
substring_calls(gt_line, ocr_line) ==
  LET min_length  == Min(length(gt_line), length(ocr_line))
      length_diff == length(gt_line) - length(ocr_line)
      start    == [min_edit_dist |-> Inf, best_match |-> <<>>, best_i |-> 0, best_j |-> 0]
  IN  IF min_length = 0 THEN [windows |-> <<>>, elongation |-> <<>>]
      ELSE The({LET dist == slid.best_match[1].dist
                    part_length == length(slid.best_match[1].gt)
                    additional_length == dist.delete + dist.replace
                IN  [windows |-> WindowCalls(gt_line, min_length, length_diff)
                                 \o WindowCalls(ocr_line, min_length, -1 * length_diff),
                     elongation |->
                       IF slid.best_match # <<>> /\ (dist.delete # 0 \/ dist.replace # 0)
                       THEN ElongateCalls(gt_line, ocr_line, part_length + 1,
                                          part_length + additional_length,
                                          slid.best_i, slid.best_j)
                       ELSE <<>>]
                : slid \in {SlideLoop(Windows(gt_line, min_length, length_diff),
                                      Windows(ocr_line, min_length, -1 * length_diff),
                                      1, min_length, start)}})

\* match_lines on its own: any two Parts of the model.
LinesInit ==
  /\ call_args \in [gt_line : Parts, ocr_line : Parts]
  /\ call_result = <<>>
  /\ pc = "match_lines"
  /\ Idle

\* The call match_lines(gt_line, ocr_line), with the calls of Part.substring
\* it makes on the way.
MatchLines ==
  /\ pc = "match_lines"
  /\ call_result' = [match |-> match_lines_cache[call_args.gt_line][call_args.ocr_line],
                     calls |-> substring_calls(call_args.gt_line, call_args.ocr_line)]
  /\ pc' = "returned"
  /\ UNCHANGED <<call_args, idle_vars>>

LinesNext == MatchLines

LinesSpec == LinesInit /\ [][LinesNext]_vars

(* --------------------------- calculate_penalty ------------------------- *)
\* The longest line of a call of calculate_penalty.
MaxLineLength == 5

\* calculate_penalty on its own: lines of 1 .. MaxLineLength characters that
\* start at 0 or 1, a match that starts anywhere the shorter line fits into
\* the longer one, a perfect match or one with a replacement, and
\* coefficients of the sweep with every offset coefficient.
PenaltyInit ==
  /\ call_args \in
       {a \in [gt_length : 1..MaxLineLength, ocr_length : 1..MaxLineLength,
               gt_start : 0..1, ocr_start : 0..1,
               gt_match_start : 0..MaxLineLength, ocr_match_start : 0..MaxLineLength,
               dist : {Distance(1, r, 0, 0) : r \in 0..1},
               coef : {Coefficients(15, d, o, l) :
                         d \in {0, 3}, o \in 0..3, l \in {0, 5}}] :
          /\ a.gt_match_start - a.gt_start \in 0..Max(0, a.gt_length - a.ocr_length)
          /\ a.ocr_match_start - a.ocr_start \in 0..Max(0, a.ocr_length - a.gt_length)}
  /\ call_result = <<>>
  /\ pc = "calculate_penalty"
  /\ Idle

\* The call calculate_penalty(...).
CalculatePenalty ==
  /\ pc = "calculate_penalty"
  /\ call_result' = calculate_penalty(call_args.gt_length, call_args.ocr_length,
                                      call_args.gt_start, call_args.ocr_start,
                                      call_args.gt_match_start, call_args.ocr_match_start,
                                      call_args.dist, call_args.coef)
  /\ pc' = "returned"
  /\ UNCHANGED <<call_args, idle_vars>>

PenaltyNext == CalculatePenalty

PenaltySpec == PenaltyInit /\ [][PenaltyNext]_vars

(* ------------------------------- claims -------------------------------- *)
\* The characters of a text outside its empty lines.
RECURSIVE Characters(_)
Characters(text) ==
  IF text = <<>> THEN 0 ELSE Len(Head(text)) + Characters(Tail(text))

\* The positions of its line a Part covers.
Positions(part) == part.start .. (end(part) - 1)

\* The sides of the matches ms ("gt" or "ocr") cover every line of text once:
\* the Parts of a line carry its characters, are pairwise disjoint and leave
\* no position out.
Covers(ms, side, text) ==
  \A l \in 1..Len(text) :
    LET on == {i \in 1..Len(ms) : ms[i][side].line = l - 1 /\ length(ms[i][side]) > 0}
    IN  /\ \A i \in on : /\ end(ms[i][side]) <= Len(text[l])
                         /\ ms[i][side].text =
                              SubSeq(text[l], ms[i][side].start + 1, end(ms[i][side]))
        /\ \A i, j \in on : i # j => Positions(ms[i][side]) \cap Positions(ms[j][side]) = {}
        /\ UNION {Positions(ms[i][side]) : i \in on} = 0..(Len(text[l]) - 1)

\* The counters of a Match agree with the lengths of its two Parts.
Accounted(match) ==
  /\ match.dist.match + match.dist.delete + match.dist.replace = length(match.gt)
  /\ match.dist.match + match.dist.insert + match.dist.replace = length(match.ocr)
  /\ match.dist.match >= 0 /\ match.dist.delete >= 0
  /\ match.dist.insert >= 0 /\ match.dist.replace >= 0

\* C2: every Match flexible_character_accuracy returns (committed, pure
\* delete and pure insert alike) has match + delete + replace = the length
\* of its gt text and match + insert + replace = the length of its ocr text,
\* no counter negative.
C2_DistanceAccountsForBothParts ==
  /\ \A i \in 1..Len(matches) : Accounted(matches[i])
  /\ \A i \in 1..Len(best_matches) : Accounted(best_matches[i])

\* A call has returned matches of all three kinds, one with edits on both sides.
C2_Witness ==
  /\ pc = "done"
  /\ \E i, j, k \in 1..Len(best_matches) :
       /\ best_matches[i].dist.replace > 0 /\ best_matches[i].dist.match > 0
       /\ length(best_matches[j].ocr) = 0 /\ best_matches[j].dist.delete > 0
       /\ length(best_matches[k].gt) = 0 /\ best_matches[k].dist.insert > 0

\* C3: in the list match_with_coefficients returns, the gt Parts of one gt
\* line are disjoint and cover the line, the ocr Parts of one ocr line
\* likewise, so the summed match + delete + replace is the number of gt
\* characters and the summed match + insert + replace that of ocr characters.
C3_NoCharacterLostOrCountedTwice ==
  pc = "score" =>
    /\ Covers(matches, "gt", gt)
    /\ Covers(matches, "ocr", ocr)
    /\ LET sum == SumDist(matches)
       IN  /\ sum.match + sum.delete + sum.replace = Characters(gt)
           /\ sum.match + sum.insert + sum.replace = Characters(ocr)

\* A run has split a gt line and an ocr line into several Parts.
C3_Witness ==
  /\ pc = "score"
  /\ \E i, j \in 1..Len(matches) :
       /\ i # j /\ matches[i].gt.line = matches[j].gt.line
       /\ length(matches[i].gt) > 0 /\ length(matches[j].gt) > 0
  /\ \E i, j \in 1..Len(matches) :
       /\ i # j /\ matches[i].ocr.line = matches[j].ocr.line
       /\ length(matches[i].ocr) > 0 /\ length(matches[j].ocr) > 0

\* t holds the lines of s in some order.
IsPermutation(s, t) ==
  /\ Len(s) = Len(t)
  /\ \E p \in Permutations(1..Len(s)) : \A i \in 1..Len(s) : t[i] = s[p[i]]

\* C4: for every text x and every text y made of the lines of x in the same
\* or in any other order, flexible_character_accuracy(x, y) scores 1.0.
C4_SameLinesScoreOne ==
  (pc = "done" /\ IsPermutation(gt, ocr)) => ScoreEq(best_score, One)

\* A call has returned for two different lines given in different orders.
C4_Witness ==
  /\ pc = "done"
  /\ IsPermutation(gt, ocr)
  /\ Len(gt) = 2 /\ gt # ocr
  /\ Len(gt[1]) > 0 /\ Len(gt[2]) > Len(gt[1])

\* The errors and characters character_accuracy takes from summed counters.
Errors(sum) == sum.replace + sum.delete + sum.insert

Chars(sum) == sum.match + sum.replace + sum.delete

\* C6: the returned score is at most 1.0, and it is 1.0 exactly when insert,
\* delete and replace, summed over the returned matches, are all zero.
C6_ScoreOneIffNoErrors ==
  pc = "done" =>
    /\ ScoreGe(One, best_score)
    /\ ScoreEq(best_score, One) <=> Errors(SumDist(best_matches)) = 0

\* A call has returned for texts that differ only by an inserted line.
C6_Witness ==
  /\ pc = "done"
  /\ SumDist(best_matches).match > 0
  /\ SumDist(best_matches).insert > 0
  /\ SumDist(best_matches).delete = 0 /\ SumDist(best_matches).replace = 0

Perms(text) ==
  {[i \in 1..Len(text) |-> text[p[i]]] : p \in Permutations(1..Len(text))}

\* C5: the returned score does not change when the lines of gt are permuted
\* and does not change when the lines of ocr are permuted.
C5_ScoreIgnoresLineOrder ==
  pc = "done" =>
    \A p \in Perms(gt), q \in Perms(ocr) :
      ScoreEq(flexible_character_accuracy(p, q).score, best_score)

C9_ArgMaxOverTheGrid ==
  pc = "done" =>
    LET grid   == 1..Len(combinations)
        runs   == [n \in grid |->
                     match_with_coefficients(gt, ocr, combinations[n])] @@ <<>>
        scores == [n \in grid |->
                     character_accuracy_for_matches(runs[n])] @@ <<>>
        first  == CHOOSE n \in grid :
                    /\ \A m \in grid : ScoreGe(scores[n], scores[m])
                    /\ \A m \in 1..(n - 1) : ScoreGt(scores[n], scores[m])
    IN  /\ ScoreEq(best_score, scores[first])
        /\ best_matches = runs[first]

\* A call has returned after the whole grid, with matches that a combination
\* later than the first one produced and that beat those of the first one.
C9_Witness ==
  /\ pc = "done"
  /\ combo = Len(combinations)
  /\ LET start == match_with_coefficients(gt, ocr, combinations[1])
     IN  /\ best_matches # start
         /\ ScoreGt(best_score, character_accuracy_for_matches(start))

\* C1: for every pair of texts and every combination of the grid the picker
\* loop of match_with_coefficients is left, with the gt pool or the ocr pool
\* empty, and flexible_character_accuracy returns.
C1_PickerLoopTerminates ==
  /\ (pc = "pick") ~> (pc = "score" /\ (Len(gt_lines) = 0 \/ Len(ocr_lines) = 0))
  /\ <>(pc = "done")

\* A call has returned after the picker loop ran for every combination of the
\* grid and picked more than once.
C1_Witness ==
  /\ pc = "done"
  /\ combo = Len(combinations)
  /\ Len(best_matches) > 2
  /\ Len(gt_lines) = 0 \/ Len(ocr_lines) = 0

\* C10: for other a sub-range of self, split returns the non-empty ones of
\* the prefix [self.start, other.start) and the suffix [other.end, self.end),
\* in that order, each on the line of self and with its start offset, so that
\* prefix, other and suffix together spell self; a full-span other yields
\* the empty list.
C10_SplitReturnsPrefixAndSuffix ==
  pc = "returned" =>
    LET prefix == Part(SubSeq(split_self.text, 1, split_other.start - split_self.start),
                       split_self.line, split_self.start)
        suffix == Part(SubSeq(split_self.text, end(split_other) - split_self.start + 1,
                              Len(split_self.text)),
                       split_self.line, end(split_other))
    IN  /\ split_rest = (IF length(prefix) > 0 THEN <<prefix>> ELSE <<>>)
                        \o (IF length(suffix) > 0 THEN <<suffix>> ELSE <<>>)
        /\ prefix.text \o split_other.text \o suffix.text = split_self.text
        /\ split_other = split_self => split_rest = <<>>

\* split has returned a prefix and a suffix of a Part that does not start
\* its line.
C10_Witness ==
  /\ pc = "returned"
  /\ Len(split_rest) = 2
  /\ split_self.start > 0
  /\ length(split_other) > 0

\* The grid id of the point (px, py) of call_args clamped into the image.
ClampedId ==
  map_point_to_grid(call_args.width, call_args.height,
                    Min(Max(0, call_args.x), call_args.width),
                    Min(Max(0, call_args.y), call_args.height),
                    call_args.grid_direction, call_args.grid_size)

\* The id the claim gives for direction "row".
RowId ==
  LET x == Min(Max(0, call_args.x), call_args.width)
      y == Min(Max(0, call_args.y), call_args.height)
  IN  Max(1, Ceil(call_args.width, call_args.grid_size)
               * Max(0, Ceil(y, call_args.grid_size) - 1)
             + Ceil(x, call_args.grid_size))

\* C11: map_point_to_grid returns for a point outside the image the id of
\* the point clamped into it, the id lies in
\* 1 .. max(1, ceil(width / grid_size) * ceil(height / grid_size)), and for
\* direction "row" it is max(1, ceil(width / grid_size)
\* * max(0, ceil(y / grid_size) - 1) + ceil(x / grid_size)), x, y clamped.
C11_GridIdOfClampedPointInRange ==
  (pc = "returned" /\ call_args.grid_direction \in {"row", "col"}) =>
    /\ call_result = ClampedId
    /\ call_result \in 1..Max(1, Ceil(call_args.width, call_args.grid_size)
                                 * Ceil(call_args.height, call_args.grid_size))
    /\ call_args.grid_direction = "row" => call_result = RowId

\* C11, amended: as C11, the id lying in
\* 1 .. max(1, ceil(width / grid_size)) * max(1, ceil(height / grid_size)).
C11_GridIdOfClampedPointInGrid ==
  (pc = "returned" /\ call_args.grid_direction \in {"row", "col"}) =>
    /\ call_result = ClampedId
    /\ call_result \in 1..(Max(1, Ceil(call_args.width, call_args.grid_size))
                           * Max(1, Ceil(call_args.height, call_args.grid_size)))
    /\ call_args.grid_direction = "row" => call_result = RowId

\* map_point_to_grid has returned the last id of the grid for a point beyond
\* the lower right corner of an image of several rows and columns.
C11_Witness ==
  /\ pc = "returned"
  /\ call_args.grid_direction = "col"
  /\ call_args.x > call_args.width /\ call_args.y > call_args.height
  /\ Ceil(call_args.width, call_args.grid_size) > 1
  /\ Ceil(call_args.height, call_args.grid_size) > 1
  /\ call_result = Ceil(call_args.width, call_args.grid_size)
                   * Ceil(call_args.height, call_args.grid_size)

\* The characters of the Parts of a pool.
RECURSIVE PoolCharacters(_)
PoolCharacters(pool) ==
  IF pool = <<>> THEN 0 ELSE length(Head(pool)) + PoolCharacters(Tail(pool))

\* The picker loop is about to iterate.
Iterating == pc = "pick" /\ Len(gt_lines) # 0 /\ Len(ocr_lines) # 0

\* C12: match_lines returns a Match for any two non-empty Parts; whenever the
\* picker loop iterates, match_longest_gt_lines returns a Match whose gt Part
\* is not empty and does not leave both pools as they were; the iteration
\* appends exactly that one Match and the characters of the gt pool decrease
\* by the length of its gt Part.
C12_EveryIterationMakesProgress ==
  /\ []((pc = "sweep" /\ combo = 1) =>
          \A g, o \in Parts :
            (length(g) > 0 /\ length(o) > 0) => match_lines_cache[g][o] # <<>>)
  /\ [](Iterating =>
          \A step \in {match_longest_gt_lines(gt_lines, ocr_lines, combinations[combo])} :
            /\ step.match # <<>>
            /\ length(step.match[1].gt) > 0
            /\ <<step.gt_lines, step.ocr_lines>> # <<gt_lines, ocr_lines>>)
  /\ [][Iterating =>
          /\ Len(matches') = Len(matches) + 1
          /\ SubSeq(matches', 1, Len(matches)) = matches
          /\ length(matches'[Len(matches')].gt) > 0
          /\ PoolCharacters(gt_lines') =
               PoolCharacters(gt_lines) - length(matches'[Len(matches')].gt)
          /\ <<gt_lines', ocr_lines'>> # <<gt_lines, ocr_lines>>]_vars

\* The loop has committed a pure delete, for want of a better match, and
\* iterates again.
C12_Witness ==
  /\ Iterating
  /\ Len(matches) > 0
  /\ length(matches[Len(matches)].ocr) = 0
  /\ length(matches[Len(matches)].gt) > 0

\* The penalty match_gt_line computes for a ground truth line and an ocr line.
PenaltyOf(g, o, coef) ==
  LET match == match_lines_cache[g][o]
  IN  calculate_penalty(length(g), length(o), g.start, o.start,
                        match[1].gt.start, match[1].ocr.start, match[1].dist, coef)

\* The character accuracy of the match that match_gt_line keeps for a line.
AccuracyOf(g, ocr_pool, coef) ==
  The({IF found.best_match = <<>> THEN NegInf
       ELSE character_accuracy(found.best_match[1].dist)
       : found \in {match_gt_line(g, ocr_pool, coef)}})

\* The ground truth candidates match_longest_gt_lines examines: the long
\* lines in pool order, up to the first one whose match has accuracy 1.
Examined(gt_pool, ocr_pool, coef) ==
  LET long == TakeWhileLonger(gt_pool,
                              Min(length(gt_pool[1]), length(ocr_pool[1])) - 1)
      acc  == [n \in 1..Len(long) |-> AccuracyOf(long[n], ocr_pool, coef)] @@ <<>>
  IN  [long |-> long, acc |-> acc,
       upto |-> {n \in 1..Len(long) : \A k \in 1..(n - 1) : ~ScoreGe(acc[k], One)}]

\* match_longest_gt_lines commits the match of g and o.
Commits(step, g, o) ==
  /\ step.match = match_lines_cache[g][o]
  /\ step.gt_lines = remove_or_split(g, step.match[1].gt, gt_lines)
  /\ step.ocr_lines = remove_or_split(o, step.match[1].ocr, ocr_lines)

\* C13 as stated: whenever the picker loop iterates, the ground truth line,
\* ocr line and match that match_longest_gt_lines commits have the lowest
\* penalty among all pairs of an examined ground truth candidate and a line
\* of the ocr pool.
C13_CommittedHasLowestPenalty ==
  Iterating =>
    \A coef \in {combinations[combo]} :
      \A step \in {match_longest_gt_lines(gt_lines, ocr_lines, coef)} :
        \A ex \in {Examined(gt_lines, ocr_lines, coef)} :
          \E n \in ex.upto : \E m \in 1..Len(ocr_lines) :
            /\ Commits(step, ex.long[n], ocr_lines[m])
            /\ \A k \in ex.upto : \A j \in 1..Len(ocr_lines) :
                 PenaltyOf(ex.long[n], ocr_lines[m], coef)
                   <= PenaltyOf(ex.long[k], ocr_lines[j], coef)

\* C13 amended: the committed ocr line has the lowest penalty among the lines
\* of the ocr pool for the committed ground truth line, and the committed
\* ground truth line is the examined candidate whose lowest-penalty match has
\* the highest character accuracy.
C13_LowestPenaltyThenHighestAccuracy ==
  Iterating =>
    \A coef \in {combinations[combo]} :
      \A step \in {match_longest_gt_lines(gt_lines, ocr_lines, coef)} :
        \A ex \in {Examined(gt_lines, ocr_lines, coef)} :
          \E n \in ex.upto : \E m \in 1..Len(ocr_lines) :
            /\ Commits(step, ex.long[n], ocr_lines[m])
            /\ \A j \in 1..Len(ocr_lines) :
                 PenaltyOf(ex.long[n], ocr_lines[m], coef)
                   <= PenaltyOf(ex.long[n], ocr_lines[j], coef)
            /\ ScoreEq(character_accuracy(step.match[1].dist), ex.acc[n])
            /\ \A k \in ex.upto : ScoreGe(ex.acc[n], ex.acc[k])

\* Several ground truth candidates were examined and the pair committed has
\* a higher penalty than another pair of an examined candidate and an ocr line.
C13_Witness ==
  /\ Iterating
  /\ \A coef \in {combinations[combo]} :
       \A step \in {match_longest_gt_lines(gt_lines, ocr_lines, coef)} :
         \A ex \in {Examined(gt_lines, ocr_lines, coef)} :
           /\ 2 \in ex.upto
           /\ \E n \in ex.upto : \E m \in 1..Len(ocr_lines) :
                /\ Commits(step, ex.long[n], ocr_lines[m])
                /\ \E k \in ex.upto : \E j \in 1..Len(ocr_lines) :
                     PenaltyOf(ex.long[k], ocr_lines[j], coef)
                       < PenaltyOf(ex.long[n], ocr_lines[m], coef)

\* A pool is sorted by length, longest first.
SortedDescending(pool) ==
  \A i \in 1..(Len(pool) - 1) : length(pool[i]) >= length(pool[i + 1])

\* A pool holds no empty Part.
NoEmptyPart(pool) == \A i \in 1..Len(pool) : length(pool[i]) > 0

\* No two Parts of a pool that come from the same line overlap.
NoOverlap(pool) ==
  \A i, j \in 1..Len(pool) :
    (i # j /\ pool[i].line = pool[j].line) =>
      (end(pool[i]) <= pool[j].start \/ end(pool[j]) <= pool[i].start)

\* C14: after initialize_lines and after every remove_or_split both pools are
\* sorted by length descending, hold no empty Part and no two Parts of the
\* same line that overlap.
C14_PoolInvariant ==
  /\ SortedDescending(gt_lines) /\ SortedDescending(ocr_lines)
  /\ NoEmptyPart(gt_lines) /\ NoEmptyPart(ocr_lines)
  /\ NoOverlap(gt_lines) /\ NoOverlap(ocr_lines)

\* A match in the middle of an ocr line has left the two ends of the line in
\* the pool, sorted behind a longer line.
C14_Witness ==
  /\ pc = "pick"
  /\ Len(matches) > 0
  /\ \E i, j \in 1..Len(ocr_lines) :
       /\ 1 < i /\ i < j
       /\ ocr_lines[i].line = ocr_lines[j].line
       /\ ocr_lines[i].line = matches[Len(matches)].ocr.line
       /\ end(ocr_lines[i]) = matches[Len(matches)].ocr.start
       /\ ocr_lines[j].start = end(matches[Len(matches)].ocr)

\* match_lines has returned.
Matched == pc = "returned" /\ call_args # <<>> /\ "gt_line" \in DOMAIN call_args

\* The bounds of a call lie within the Part: 0 <= rel_start <= rel_end <= length.
InRange(call) ==
  /\ 0 <= call.rel_start
  /\ call.rel_start <= call.rel_end
  /\ call.rel_end <= length(call.self)

\* C15 as stated: every call of Part.substring that match_lines makes, those
\* of the extension pass included, has 0 <= rel_start <= rel_end <= length.
C15_SubstringCallsInRange ==
  Matched =>
    \A calls \in {call_result.calls.windows \o call_result.calls.elongation} :
      \A n \in 1..Len(calls) : InRange(calls[n])

\* C15 amended: every call has 0 <= rel_start <= rel_end and rel_start <=
\* length; the calls of the sliding windows have rel_end <= length as well;
\* a call of the extension pass may have rel_end > length, and then substring
\* returns the Part from rel_start to the end of the line.
C15_SubstringCallsStartInRange ==
  Matched =>
    /\ \A calls \in {call_result.calls.windows \o call_result.calls.elongation} :
         \A n \in 1..Len(calls) :
           /\ 0 <= calls[n].rel_start
           /\ calls[n].rel_start <= calls[n].rel_end
           /\ calls[n].rel_start <= length(calls[n].self)
           /\ substring(calls[n].self, calls[n].rel_start, calls[n].rel_end) =
                Part(SubSeq(calls[n].self.text, calls[n].rel_start + 1,
                            Min(calls[n].rel_end, length(calls[n].self))),
                     calls[n].self.line, calls[n].self.start + calls[n].rel_start)
    /\ \A n \in 1..Len(call_result.calls.windows) :
         InRange(call_result.calls.windows[n])

\* The extension pass has asked for more characters than a line has.
C15_Witness ==
  /\ Matched
  /\ \E n \in 1..Len(call_result.calls.elongation) :
       call_result.calls.elongation[n].rel_end
         > length(call_result.calls.elongation[n].self)
  /\ Len(call_result.calls.windows) > 2

\* calculate_penalty has returned for lines whose lengths differ by more than
\* one, with an offset coefficient above 0.
Penalised ==
  /\ pc = "returned"
  /\ "coef" \in DOMAIN call_args
  /\ Abs(call_args.gt_length - call_args.ocr_length) > 1
  /\ call_args.coef.offset > 0

\* Twice the distance of a substring position from length_diff / 2.
FromMiddle(substring_pos) ==
  Abs(2 * substring_pos - Abs(call_args.gt_length - call_args.ocr_length))

\* The penalty of the call with the match at another substring position of
\* the longer line, every other argument as it is.
PenaltyAt(substring_pos) ==
  IF call_args.gt_length >= call_args.ocr_length
  THEN calculate_penalty(call_args.gt_length, call_args.ocr_length,
                         call_args.gt_start, call_args.ocr_start,
                         call_args.gt_start + substring_pos, call_args.ocr_match_start,
                         call_args.dist, call_args.coef)
  ELSE calculate_penalty(call_args.gt_length, call_args.ocr_length,
                         call_args.gt_start, call_args.ocr_start,
                         call_args.gt_match_start, call_args.ocr_start + substring_pos,
                         call_args.dist, call_args.coef)

\* The substring position of the call.
SubstringPos ==
  Max(call_args.gt_match_start - call_args.gt_start,
      call_args.ocr_match_start - call_args.ocr_start)

\* C16 as stated: with length_diff > 1, coef.offset > 0 and every other
\* argument the same, the penalty of a match is lower than or equal to that
\* of any match whose substring position is further from length_diff / 2.
C16_CloserToMiddleLowerPenalty ==
  Penalised =>
    \A further \in 0..Abs(call_args.gt_length - call_args.ocr_length) :
      FromMiddle(further) > FromMiddle(SubstringPos) =>
        call_result <= PenaltyAt(further)

\* C16 amended: under the same conditions the penalty of a match is higher
\* than or equal to that of any match whose substring position is further
\* from length_diff / 2.
C16_CloserToMiddleHigherPenalty ==
  Penalised =>
    /\ call_result = PenaltyAt(SubstringPos)
    /\ \A further \in 0..Abs(call_args.gt_length - call_args.ocr_length) :
         FromMiddle(further) > FromMiddle(SubstringPos) =>
           call_result >= PenaltyAt(further)

\* A match in the middle of the longer line has a higher penalty than the
\* same match at the start of the line.
C16_Witness ==
  /\ Penalised
  /\ FromMiddle(SubstringPos) = 0
  /\ call_result > PenaltyAt(0)

\* extract_regions_grid has returned.
Extracted == pc = "returned" /\ "regions" \in DOMAIN call_args

\* The grid id of the top left corner of the region at a place of the xml
\* structure.
GridIdOf(place) ==
  map_point_to_grid(call_args.width, call_args.height,
                    extract_top_left(call_args.regions[place].points).x,
                    extract_top_left(call_args.regions[place].points).y,
                    call_args.grid_direction, call_args.grid_size)

\* The place in the xml structure of the region with an id.
PlaceOf(id) == CHOOSE place \in 1..Len(call_args.regions) : call_args.regions[place].id = id

\* C17: extract_regions_grid returns every text region id exactly once, in
\* ascending order of the grid id of the top left corner, and regions of the
\* same grid position in the order of their occurrence in the xml structure.
C17_GridOrderThenXmlOrder ==
  Extracted =>
    /\ Len(call_result) = Len(call_args.regions)
    /\ \A place \in 1..Len(call_args.regions) :
         Cardinality({n \in 1..Len(call_result) :
                        call_result[n] = call_args.regions[place].id}) = 1
    /\ \A m, n \in 1..Len(call_result) :
         m < n =>
           /\ GridIdOf(PlaceOf(call_result[m])) <= GridIdOf(PlaceOf(call_result[n]))
           /\ GridIdOf(PlaceOf(call_result[m])) = GridIdOf(PlaceOf(call_result[n]))
                => PlaceOf(call_result[m]) < PlaceOf(call_result[n])

=============================================================================
